---- MODULE Spec2Model ----
(***************************************************************************)
(* Model of LandingAssistSystem (src/landing_assist/script.js): the        *)
(* simulated landing controller, its command handlers and its timers.      *)
(*                                                                         *)
(* Numbers are fixed-point with two decimals (Scale = 100): an altitude of *)
(* 120 is 12000, a speed of 5.2 is 520, a battery of 85 is 8500 and the    *)
(* position (400, 300) is (40000, 30000).  Math.random() is a value in     *)
(* hundredths drawn from a small set, one value for the draws of one       *)
(* callback.  Quotients and products are rounded toward zero to the second *)
(* decimal.                                                                *)
(*                                                                         *)
(* Every handler is one action: JavaScript runs each callback to its end   *)
(* before the next one starts.  The setInterval timers of period 100 ms    *)
(* (the simulation interval and the descent intervals) fire in the cyclic  *)
(* order of their due times: timerQueue is that cycle, its head the next   *)
(* to fire, a new interval joining at the tail.  The 3 s takeoff timeout   *)
(* and the 5 s battery interval are not timed against them.  The commands  *)
(* are the methods bound to the buttons and to the overlay; they are also  *)
(* reachable as calls on window.landingSystem, so the disabled flag of a   *)
(* button is state the handlers write, not a guard of the command.  Of     *)
(* the page the model keeps those three flags and the two texts that       *)
(* updateLandingInfo() computes (info-eta, info-safety); the other texts   *)
(* and styles are copies of the fields and are read by no handler.  The    *)
(* field landingMode is written by one handler and read by none.           *)
(*                                                                         *)
(* events, lastOp and attempt are history variables: the number of events  *)
(* of the environment so far, the handler that ran last with its outcome,  *)
(* and the fate of the latest landing attempt.  No handler reads them.     *)
(***************************************************************************)
EXTENDS Integers, Sequences, FiniteSets, TLC

\* ---------------------------------------------------------------- bounds
\* events of the environment in one run: operator commands (accepted or
\* ignored) and callbacks of the battery interval count once; an accepted
\* takeoff counts twice, for the command and for the time at which its
\* timeout fires; a timer callback whose Math.random() value is not the
\* middle one counts twice, for the callback it falls on and for the value
MaxEvents == 4

\* ------------------------------------------------------- program constants
landingSteps == 100
InitAltitude == 12000
InitSpeed == 520
InitBattery == 8500
CenterX == 40000
CenterY == 30000
AltitudeStep == 120
SpeedStep == 2
JitterWidth == 200
DriftPosWidth == 50
DriftAltWidth == 20
DriftSpeedWidth == 10
MinX == 1000
MaxX == 79000
MinY == 1000
MaxY == 59000
MinAltitude == 11500
MaxAltitude == 12500
MinSpeed == 450
MaxSpeed == 600
BatteryStep == 1

\* flightStatus texts
Flying == "Flying"
TakingOff == "TakingOff"
Landing == "Landing"
Landed == "Landed"
Manual == "Manual"

NoTarget == [x |-> -1, y |-> -1, set |-> FALSE]

Target(x, y) == [x |-> x, y |-> y, set |-> TRUE]

\* points the operator clicks on the overlay: one inside the viewport of the
\* drift clamp and one in the margin between the overlay edge and that viewport
ClickPoints == { Target(60000, 20000), Target(500, 59500) }

\* values of Math.random(), in hundredths: lowest, middle, highest
RandomValues == { 0, 50, 99 }

VARIABLES selectedTarget, currentPosition, altitude, speed, battery,
          flightStatus, isLanding, isManualMode,
          landBtnDisabled, takeoffBtnDisabled, cancelBtnDisabled,
          infoEta, infoSafety,
          timerQueue, takeoffTimeouts,
          events, lastOp, attempt,
          \* the wish page (src/wish_app/script.js) with its server: a record
          \* of serverWishes and wishesContainer
          wishApp,
          \* the countdown page (src/air_autopilot_platform/docs/
          \* architecture.md): a record of targetDate, countdownInterval,
          \* now, display, eventTitle and localStorage
          countdown

vars == << selectedTarget, currentPosition, altitude, speed, battery,
           flightStatus, isLanding, isManualMode,
           landBtnDisabled, takeoffBtnDisabled, cancelBtnDisabled,
           infoEta, infoSafety,
           timerQueue, takeoffTimeouts,
           events, lastOp, attempt,
           wishApp, countdown >>

\* the state of LandingAssistSystem and of its page
landingSystem == << selectedTarget, currentPosition, altitude, speed, battery,
                    flightStatus, isLanding, isManualMode,
                    landBtnDisabled, takeoffBtnDisabled, cancelBtnDisabled,
                    infoEta, infoSafety, timerQueue, takeoffTimeouts,
                    events, attempt >>

\* the telemetry of the vehicle
telemetry == << flightStatus, isManualMode, currentPosition, altitude, speed,
                battery, selectedTarget >>

\* the timers a command can start
timers == << timerQueue, takeoffTimeouts >>

buttons == << landBtnDisabled, takeoffBtnDisabled, cancelBtnDisabled >>

\* the texts of the landing information panel
info == << infoEta, infoSafety >>

\* ----------------------------------------------------------------- helpers
Min(a, b) == IF a < b THEN a ELSE b

Max(a, b) == IF a > b THEN a ELSE b

\* a / b for b > 0, rounded toward zero
Quot(a, b) == IF a >= 0 THEN a \div b ELSE -((-a) \div b)

\* (Math.random() - 0.5) * width for the random value r
Draw(r, width) == Quot((r - 50) * width, 100)

\* the largest m in lo..hi with m * m <= n, given lo * lo <= n
RECURSIVE SqrtBetween(_, _, _)
SqrtBetween(n, lo, hi) ==
    IF lo >= hi THEN lo
    ELSE LET mid == (lo + hi + 1) \div 2 IN
         IF mid * mid <= n THEN SqrtBetween(n, mid, hi)
                           ELSE SqrtBetween(n, lo, mid - 1)

\* Math.sqrt(dx^2 + dy^2) of lines 283-286, in tenths: dx and dy are taken
\* to the first decimal so that the squares stay within 32-bit integers
Distance(t, pos) ==
    LET dx == Quot(t.x - pos.x, 10)
        dy == Quot(t.y - pos.y, 10)
    IN  SqrtBetween(dx * dx + dy * dy, 0, 10000)

\* texts of info-eta: the text the page's markup carries before the first
\* update, the sentinel, `${n}s` for a finite n, and `${Math.round(Infinity)}s`
EtaMarkup == [text |-> "markup", n |-> 0]

EtaSentinel == [text |-> "--", n |-> 0]

EtaSeconds(n) == [text |-> "s", n |-> n]

EtaInfinity == [text |-> "Infinitys", n |-> 0]

\* the text lines 289-291 write for a set target t.  distance / speed is
\* Infinity for speed = 0 and distance > 0, NaN for 0 / 0; NaN > 0 is false
\* and Infinity > 0 is true.  Math.round rounds half up.
EtaText(t, pos, spd) ==
    LET apart == t.x # pos.x \/ t.y # pos.y IN
    IF spd = 0
    THEN IF apart THEN EtaInfinity ELSE EtaSentinel
    ELSE IF apart /\ spd > 0
         THEN EtaSeconds((20 * Distance(t, pos) + spd) \div (2 * spd))
         ELSE EtaSentinel

\* the safety level with the boundaries 20 and 50 in the lower tier
SafetyLevel_InclusiveBounds(alt) ==
    IF alt <= 2000 THEN "high"
    ELSE IF alt <= 5000 THEN "medium"
    ELSE "low"

\* the safety level of lines 299-307 for an altitude
SafetyLevel(alt) ==
    IF alt < 2000 THEN "high"
    ELSE IF alt < 5000 THEN "medium"
    ELSE "low"

\* updateLandingInfo() called with target t, position pos, speed spd and
\* altitude alt in the fields
UpdateLandingInfo(t, pos, spd, alt) ==
    /\ infoEta' = IF t.set THEN EtaText(t, pos, spd) ELSE EtaSentinel
    /\ infoSafety' = SafetyLevel(alt)

\* the simulation interval of startSimulation()
Simulation == [kind |-> "simulation", step |-> 0]

\* a descent interval of simulateLanding() with its closure's step counter
Descent(step) == [kind |-> "landing", step |-> step]

\* the live descent intervals, in firing order
landingIntervals == SelectSeq(timerQueue, LAMBDA e : e.kind = "landing")

\* the cycle after its head has had its turn and stays scheduled as e
Rotate(e) == Append(Tail(timerQueue), e)

\* -------------------------------------------------------- the other pages
\* the three programs are separate pages: while one runs, the others are
\* not open
WishAppClosed ==
    wishApp = [serverWishes |-> << >>,
               wishesContainer |-> [view |-> "closed", cards |-> << >>]]

NullDate == [kind |-> "null", t |-> 0]

NoSettings == [kind |-> "none", t |-> 0]

Zeros == [kind |-> "00", left |-> 0]

SpansMarkup == [kind |-> "markup", left |-> 0]

\* the countdown script's variables as declared, the page as marked up,
\* nothing saved
CountdownLoaded ==
    [targetDate |-> NullDate, countdownInterval |-> "null", now |-> 0,
     display |-> SpansMarkup, eventTitle |-> "markup",
     localStorage |-> NoSettings]

CountdownClosed == countdown = CountdownLoaded

\* ------------------------------------------------------------------- Init
\* The constructor's defaults.  The disabled attributes of the three buttons
\* come from the page's markup, which the script does not set before the
\* first command: each may be either value.
Init ==
    /\ selectedTarget = NoTarget
    /\ currentPosition = [x |-> CenterX, y |-> CenterY]
    /\ altitude = InitAltitude
    /\ speed = InitSpeed
    /\ battery = InitBattery
    /\ flightStatus = Flying
    /\ isLanding = FALSE
    /\ isManualMode = FALSE
    /\ landBtnDisabled \in BOOLEAN
    /\ takeoffBtnDisabled \in BOOLEAN
    /\ cancelBtnDisabled \in BOOLEAN
    /\ infoEta = EtaMarkup
    /\ infoSafety = "markup"
    /\ timerQueue = << Simulation >>
    /\ takeoffTimeouts = 0
    /\ events = 0
    /\ lastOp = "init"
    /\ attempt = "none"
    /\ WishAppClosed
    /\ CountdownClosed

\* ------------------------------------------------------- shared procedures
\* selectLandingTarget(x, y): records the target, refreshes the landing
\* information and enables the land button
SelectLandingTarget(t) ==
    /\ selectedTarget' = t
    /\ UpdateLandingInfo(t, currentPosition, speed, altitude)
    /\ landBtnDisabled' = FALSE

\* completeLanding() without the reset of the selected target
CompleteLanding_KeepsTarget ==
    /\ isLanding' = FALSE
    /\ flightStatus' = Landed
    /\ altitude' = 0
    /\ speed' = 0
    /\ UpdateLandingInfo(selectedTarget, currentPosition, 0, 0)
    /\ landBtnDisabled' = TRUE
    /\ takeoffBtnDisabled' = FALSE
    /\ cancelBtnDisabled' = TRUE
    /\ selectedTarget' = selectedTarget

\* completeLanding(): the finalisation of a descent
CompleteLanding ==
    /\ isLanding' = FALSE
    /\ flightStatus' = Landed
    /\ altitude' = 0
    /\ speed' = 0
    /\ UpdateLandingInfo(selectedTarget, currentPosition, 0, 0)
    /\ landBtnDisabled' = TRUE
    /\ takeoffBtnDisabled' = FALSE
    /\ cancelBtnDisabled' = TRUE
    /\ selectedTarget' = NoTarget

\* a handler that returns at its guard
Ignored(op) ==
    /\ lastOp' = op
    /\ UNCHANGED << telemetry, timers, buttons, info, isLanding, attempt >>

\* ---------------------------------------------------------------- commands
\* n more events of the environment
Events(n) ==
    /\ events + n <= MaxEvents
    /\ events' = events + n

\* the operator issues a command
Issue == Events(1)

\* click on the camera overlay at point t
OverlayClick(t) ==
    /\ UNCHANGED << wishApp, countdown >>
    /\ Issue
    /\ IF isManualMode \/ isLanding
       THEN Ignored("click_ignored")
       ELSE /\ SelectLandingTarget(t)
            /\ lastOp' = "selectLandingTarget"
            /\ UNCHANGED << currentPosition, altitude, speed, battery, flightStatus,
                            isLanding, isManualMode, takeoffBtnDisabled,
                            cancelBtnDisabled, timers, attempt >>

\* takeoff() without its guard on isLanding
Takeoff_NoGuard ==
    /\ UNCHANGED << wishApp, countdown >>
    /\ Events(2)
    /\ flightStatus' = TakingOff
    /\ takeoffTimeouts' = takeoffTimeouts + 1
    /\ lastOp' = "takeoff"
    /\ UNCHANGED << selectedTarget, currentPosition, altitude, speed,
                    battery, isLanding, isManualMode, buttons, info,
                    timerQueue, attempt >>

\* takeoff()
Takeoff ==
    /\ UNCHANGED << wishApp, countdown >>
    /\ Events(IF isLanding THEN 1 ELSE 2)
    /\ IF isLanding
       THEN Ignored("takeoff_ignored")
       ELSE /\ flightStatus' = TakingOff
            /\ takeoffTimeouts' = takeoffTimeouts + 1
            /\ lastOp' = "takeoff"
            /\ UNCHANGED << selectedTarget, currentPosition, altitude, speed,
                            battery, isLanding, isManualMode, buttons, info,
                            timerQueue, attempt >>

\* the callback of takeoff()'s setTimeout without the reset of the altitude
TakeoffComplete_KeepsAltitude ==
    /\ UNCHANGED << wishApp, countdown >>
    /\ takeoffTimeouts > 0
    /\ takeoffTimeouts' = takeoffTimeouts - 1
    /\ flightStatus' = Flying
    /\ currentPosition' = [x |-> CenterX, y |-> CenterY]
    /\ lastOp' = "takeoffComplete"
    /\ UNCHANGED << selectedTarget, altitude, speed, battery, isLanding,
                    isManualMode, buttons, info, timerQueue, events, attempt >>

\* the callback of takeoff()'s setTimeout
TakeoffComplete ==
    /\ UNCHANGED << wishApp, countdown >>
    /\ takeoffTimeouts > 0
    /\ takeoffTimeouts' = takeoffTimeouts - 1
    /\ flightStatus' = Flying
    /\ altitude' = InitAltitude
    /\ currentPosition' = [x |-> CenterX, y |-> CenterY]
    /\ lastOp' = "takeoffComplete"
    /\ UNCHANGED << selectedTarget, speed, battery, isLanding, isManualMode,
                    buttons, info, timerQueue, events, attempt >>

\* startLanding() without the call of simulateLanding()
StartLanding_NoInterval ==
    /\ UNCHANGED << wishApp, countdown >>
    /\ Issue
    /\ IF ~selectedTarget.set \/ isLanding
       THEN Ignored("startLanding_ignored")
       ELSE /\ isLanding' = TRUE
            /\ flightStatus' = Landing
            /\ landBtnDisabled' = TRUE
            /\ takeoffBtnDisabled' = TRUE
            /\ cancelBtnDisabled' = FALSE
            /\ lastOp' = "startLanding"
            /\ attempt' = "active"
            /\ UNCHANGED << selectedTarget, currentPosition, altitude, speed,
                            battery, isManualMode, info, timers >>

\* startLanding(), with simulateLanding()'s setInterval
StartLanding ==
    /\ UNCHANGED << wishApp, countdown >>
    /\ Issue
    /\ IF ~selectedTarget.set \/ isLanding
       THEN Ignored("startLanding_ignored")
       ELSE /\ isLanding' = TRUE
            /\ flightStatus' = Landing
            /\ landBtnDisabled' = TRUE
            /\ takeoffBtnDisabled' = TRUE
            /\ cancelBtnDisabled' = FALSE
            /\ timerQueue' = Append(timerQueue, Descent(0))
            /\ lastOp' = "startLanding"
            /\ attempt' = "active"
            /\ UNCHANGED << selectedTarget, currentPosition, altitude, speed,
                            battery, isManualMode, info, takeoffTimeouts >>

\* cancelLanding() that also drops the selected target
CancelLanding_ClearsTarget ==
    /\ UNCHANGED << wishApp, countdown >>
    /\ Issue
    /\ IF ~isLanding
       THEN Ignored("cancelLanding_ignored")
       ELSE /\ isLanding' = FALSE
            /\ flightStatus' = Flying
            /\ selectedTarget' = NoTarget
            /\ landBtnDisabled' = TRUE
            /\ takeoffBtnDisabled' = FALSE
            /\ cancelBtnDisabled' = TRUE
            /\ lastOp' = "cancelLanding"
            /\ attempt' = "cancelled"
            /\ UNCHANGED << currentPosition, altitude, speed, battery,
                            isManualMode, info, timers >>

\* cancelLanding() without the reset of isLanding
CancelLanding_KeepsLanding ==
    /\ UNCHANGED << wishApp, countdown >>
    /\ Issue
    /\ IF ~isLanding
       THEN Ignored("cancelLanding_ignored")
       ELSE /\ flightStatus' = Flying
            /\ landBtnDisabled' = ~selectedTarget.set
            /\ takeoffBtnDisabled' = FALSE
            /\ cancelBtnDisabled' = TRUE
            /\ lastOp' = "cancelLanding"
            /\ attempt' = "cancelled"
            /\ UNCHANGED << selectedTarget, currentPosition, altitude, speed,
                            battery, isLanding, isManualMode, info, timers >>

\* cancelLanding()
CancelLanding ==
    /\ UNCHANGED << wishApp, countdown >>
    /\ Issue
    /\ IF ~isLanding
       THEN Ignored("cancelLanding_ignored")
       ELSE /\ isLanding' = FALSE
            /\ flightStatus' = Flying
            /\ landBtnDisabled' = ~selectedTarget.set
            /\ takeoffBtnDisabled' = FALSE
            /\ cancelBtnDisabled' = TRUE
            /\ lastOp' = "cancelLanding"
            /\ attempt' = "cancelled"
            /\ UNCHANGED << selectedTarget, currentPosition, altitude, speed,
                            battery, isManualMode, info, timers >>

\* change of the landing-mode radio: writes the field landingMode, which no
\* handler reads, and calls updateLandingInfo()
LandingModeChange ==
    /\ UNCHANGED << wishApp, countdown >>
    /\ Issue
    /\ UpdateLandingInfo(selectedTarget, currentPosition, speed, altitude)
    /\ lastOp' = "landingModeChange"
    /\ UNCHANGED << telemetry, isLanding, buttons, timers, attempt >>

\* toggleManualMode()
ToggleManualMode ==
    /\ UNCHANGED << wishApp, countdown >>
    /\ Issue
    /\ isManualMode' = ~isManualMode
    /\ flightStatus' = IF ~isManualMode THEN Manual ELSE Flying
    /\ lastOp' = "toggleManualMode"
    /\ UNCHANGED << selectedTarget, currentPosition, altitude, speed, battery,
                    isLanding, buttons, info, timers, attempt >>

\* ------------------------------------------------------------------ timers
\* the Math.random() value of one callback: the middle value, or an event
Random(r) ==
    IF r = 50 THEN UNCHANGED events ELSE Events(2)

\* position after one interpolation step toward target t with steps left
\* and the jitter (jx, jy): lines 164-172
StepToward(pos, t, left, jx, jy) ==
    [x |-> pos.x + Quot(t.x - pos.x, left) + jx,
     y |-> pos.y + Quot(t.y - pos.y, left) + jy]

\* altitude and speed a descent callback writes at step: lines 160-161
DescentAltitude(step) == InitAltitude - step * AltitudeStep

DescentSpeed(step) == InitSpeed - step * SpeedStep

\* one callback of the descent interval that is next to fire
LandingTick ==
    /\ UNCHANGED << wishApp, countdown >>
    /\ Head(timerQueue).kind = "landing"
    /\ LET step == Head(timerQueue).step + 1 IN
       IF step >= landingSteps
       THEN /\ CompleteLanding
            /\ timerQueue' = Tail(timerQueue)
            /\ lastOp' = "completeLanding"
            /\ attempt' = "completed"
            /\ UNCHANGED << currentPosition, battery, isManualMode,
                            takeoffTimeouts, events >>
       ELSE /\ timerQueue' = Rotate(Descent(step))
            /\ altitude' = DescentAltitude(step)
            /\ speed' = DescentSpeed(step)
            /\ IF selectedTarget.set
               THEN \E r \in RandomValues :
                      /\ Random(r)
                      /\ currentPosition' =
                           StepToward(currentPosition, selectedTarget,
                                      landingSteps - step,
                                      Draw(r, JitterWidth), Draw(r, JitterWidth))
                      \* every 10 steps: updateLandingInfo()
                      /\ IF step % 10 = 0
                         THEN UpdateLandingInfo(selectedTarget, currentPosition',
                                                speed', altitude')
                         ELSE UNCHANGED info
                      /\ lastOp' = "landingStep"
               \* selectedTarget is null: reading its x throws a TypeError
               \* and the callback ends after the writes above
               ELSE /\ lastOp' = "landingStep_TypeError"
                    /\ UNCHANGED << currentPosition, info, events >>
            /\ UNCHANGED << selectedTarget, battery, flightStatus, isLanding,
                            isManualMode, buttons, takeoffTimeouts, attempt >>

Clamp(lo, hi, v) == Max(lo, Min(hi, v))

\* the simulation callback without the clamps of the position
DriftTick_NoClamp ==
    /\ UNCHANGED << wishApp, countdown >>
    /\ Head(timerQueue).kind = "simulation"
    /\ timerQueue' = Rotate(Simulation)
    /\ UNCHANGED takeoffTimeouts
    /\ IF isLanding \/ isManualMode
       THEN /\ lastOp' = "drift_skipped"
            /\ UNCHANGED << telemetry, buttons, info, isLanding, events,
                            attempt >>
       ELSE \E r \in RandomValues :
              /\ Random(r)
              /\ currentPosition' =
                   [x |-> currentPosition.x + Draw(r, DriftPosWidth),
                    y |-> currentPosition.y + Draw(r, DriftPosWidth)]
              /\ IF flightStatus = Flying
                 THEN /\ altitude' = Clamp(MinAltitude, MaxAltitude,
                                           altitude + Draw(r, DriftAltWidth))
                      /\ speed' = Clamp(MinSpeed, MaxSpeed,
                                        speed + Draw(r, DriftSpeedWidth))
                 ELSE UNCHANGED << altitude, speed >>
              /\ lastOp' = "drift"
              /\ UNCHANGED << selectedTarget, battery, flightStatus, isLanding,
                              isManualMode, buttons, info, attempt >>

\* one callback of the 100 ms simulation interval
DriftTick ==
    /\ UNCHANGED << wishApp, countdown >>
    /\ Head(timerQueue).kind = "simulation"
    /\ timerQueue' = Rotate(Simulation)
    /\ UNCHANGED takeoffTimeouts
    /\ IF isLanding \/ isManualMode
       THEN /\ lastOp' = "drift_skipped"
            /\ UNCHANGED << telemetry, buttons, info, isLanding, events,
                            attempt >>
       ELSE \E r \in RandomValues :
              /\ Random(r)
              /\ currentPosition' =
                   [x |-> Clamp(MinX, MaxX,
                                currentPosition.x + Draw(r, DriftPosWidth)),
                    y |-> Clamp(MinY, MaxY,
                                currentPosition.y + Draw(r, DriftPosWidth))]
              /\ IF flightStatus = Flying
                 THEN /\ altitude' = Clamp(MinAltitude, MaxAltitude,
                                           altitude + Draw(r, DriftAltWidth))
                      /\ speed' = Clamp(MinSpeed, MaxSpeed,
                                        speed + Draw(r, DriftSpeedWidth))
                 ELSE UNCHANGED << altitude, speed >>
              /\ lastOp' = "drift"
              /\ UNCHANGED << selectedTarget, battery, flightStatus, isLanding,
                              isManualMode, buttons, info, attempt >>

\* the battery callback without Math.max(0, ...)
BatteryTick_NoFloor ==
    /\ UNCHANGED << wishApp, countdown >>
    /\ Events(1)
    /\ UNCHANGED timers
    /\ IF flightStatus # Landed
       THEN /\ battery' = battery - BatteryStep
            /\ lastOp' = IF battery - BatteryStep < 0
                         THEN "battery_floored" ELSE "battery"
            /\ UNCHANGED << selectedTarget, currentPosition, altitude, speed,
                            flightStatus, isLanding, isManualMode, buttons,
                            info, attempt >>
       ELSE /\ lastOp' = "battery_skipped"
            /\ UNCHANGED << telemetry, buttons, info, isLanding, attempt >>

\* one callback of the 5 s battery interval; lastOp tells whether Math.max
\* took the 0
BatteryTick ==
    /\ UNCHANGED << wishApp, countdown >>
    /\ Events(1)
    /\ UNCHANGED timers
    /\ IF flightStatus # Landed
       THEN /\ battery' = Max(0, battery - BatteryStep)
            /\ lastOp' = IF battery - BatteryStep < 0
                         THEN "battery_floored" ELSE "battery"
            /\ UNCHANGED << selectedTarget, currentPosition, altitude, speed,
                            flightStatus, isLanding, isManualMode, buttons,
                            info, attempt >>
       ELSE /\ lastOp' = "battery_skipped"
            /\ UNCHANGED << telemetry, buttons, info, isLanding, attempt >>

\* ----------------------------------------------------------- specification
Next ==
    \/ \E t \in ClickPoints : OverlayClick(t)
    \/ Takeoff
    \/ TakeoffComplete
    \/ StartLanding
    \/ CancelLanding
    \/ ToggleManualMode
    \/ LandingModeChange
    \/ LandingTick
    \/ DriftTick
    \/ BatteryTick

Spec == Init /\ [][Next]_vars

\* the browser runs every due callback of the 100 ms timers
LiveSpec == Spec /\ WF_vars(LandingTick) /\ WF_vars(DriftTick)

\* the browser runs the callback of every takeoff timeout
TakeoffSpec == Spec /\ WF_vars(TakeoffComplete)

\* the system after the battery interval has drained the battery to its last
\* step, nothing else having happened
DrainedInit ==
    /\ selectedTarget = NoTarget
    /\ currentPosition = [x |-> CenterX, y |-> CenterY]
    /\ altitude = InitAltitude
    /\ speed = InitSpeed
    /\ battery = BatteryStep
    /\ flightStatus = Flying
    /\ isLanding = FALSE
    /\ isManualMode = FALSE
    /\ landBtnDisabled \in BOOLEAN
    /\ takeoffBtnDisabled \in BOOLEAN
    /\ cancelBtnDisabled \in BOOLEAN
    /\ infoEta = EtaMarkup
    /\ infoSafety = "markup"
    /\ timerQueue = << Simulation >>
    /\ takeoffTimeouts = 0
    /\ events = 0
    /\ lastOp = "init"
    /\ attempt = "none"
    /\ WishAppClosed
    /\ CountdownClosed

DrainedSpec == DrainedInit /\ [][Next]_vars

\* altitudes to the second decimal, from the ground to the cruise ceiling
Altitudes == 0 .. MaxAltitude

\* updateLandingInfo() applied to every altitude: the fields as constructed
\* but for the altitude, and the handler that recomputes the information
SafetyInit ==
    /\ selectedTarget = NoTarget
    /\ currentPosition = [x |-> CenterX, y |-> CenterY]
    /\ altitude \in Altitudes
    /\ speed = InitSpeed
    /\ battery = InitBattery
    /\ flightStatus = Flying
    /\ isLanding = FALSE
    /\ isManualMode = FALSE
    /\ landBtnDisabled = TRUE
    /\ takeoffBtnDisabled = FALSE
    /\ cancelBtnDisabled = TRUE
    /\ infoEta = EtaMarkup
    /\ infoSafety = "markup"
    /\ timerQueue = << Simulation >>
    /\ takeoffTimeouts = 0
    /\ events = 0
    /\ lastOp = "init"
    /\ attempt = "none"
    /\ WishAppClosed
    /\ CountdownClosed

SafetyNext == LandingModeChange

SafetySpec == SafetyInit /\ [][SafetyNext]_vars

\* ------------------------------------------------------------------ claims
\* the step is the command op, accepted or ignored
Command(op) == lastOp' \in { op, op \o "_ignored" }

\* the step is a callback of a descent interval
DescentCallback ==
    lastOp' \in { "landingStep", "landingStep_TypeError", "completeLanding" }

\* what a no-op leaves alone: the telemetry, the landing flag and the timers
NoOp == UNCHANGED << telemetry, isLanding, timers >>

\* C1: a command issued in an illegal state is a no-op.  startLanding with
\* no target or while a landing is in progress, cancelLanding while no
\* landing is in progress and takeoff while a landing is in progress leave
\* mode, controlMode, position, altitude, speed, battery and target
\* unchanged and start no timer.
C1_IllegalCommandIsNoOp ==
    [][ /\ (Command("startLanding") /\ (~selectedTarget.set \/ isLanding)) => NoOp
        /\ (Command("cancelLanding") /\ ~isLanding) => NoOp
        /\ (Command("takeoff") /\ isLanding) => NoOp ]_vars

\* a takeoff has been issued and ignored during a descent
C1_Witness ==
    /\ lastOp = "takeoff_ignored"
    /\ isLanding
    /\ Len(landingIntervals) = 1

\* C2: once startLanding has been accepted and cancelLanding is not issued,
\* the descent finishes: mode eventually becomes Landed.
C2_DescentFinishes ==
    (lastOp = "startLanding")
       ~> (flightStatus = Landed
           \/ lastOp \in { "cancelLanding", "cancelLanding_ignored" })

\* a descent that was not cancelled has been finalised
C2_Witness ==
    /\ attempt = "completed"
    /\ flightStatus = Landed
    /\ lastOp = "completeLanding"
    /\ landingIntervals = << >>

\* C3: the descent callback on which the step counter reaches landingSteps,
\* and no earlier callback of that interval, finalises the landing: right
\* after it mode = Landed, altitude = 0, speed = 0, no target is set, no
\* landing is in progress and the interval is cleared; an earlier callback
\* keeps the interval scheduled and leaves mode, landing flag and target.
C3_FinalisedAtLastStep ==
    [][ DescentCallback =>
          IF Head(timerQueue).step + 1 >= landingSteps
          THEN /\ flightStatus' = Landed
               /\ altitude' = 0
               /\ speed' = 0
               /\ ~selectedTarget'.set
               /\ ~isLanding'
               /\ timerQueue' = Tail(timerQueue)
          ELSE /\ timerQueue' = Rotate(Descent(Head(timerQueue).step + 1))
               /\ UNCHANGED << flightStatus, isLanding, selectedTarget >> ]_vars

\* the last callback of a descent has just run, after a full descent
C3_Witness ==
    /\ lastOp = "completeLanding"
    /\ flightStatus = Landed
    /\ altitude = 0
    /\ ~selectedTarget.set

\* C4: after an accepted cancelLanding and until a later startLanding is
\* accepted, no descent callback changes altitude, speed or position and
\* mode does not become Landed.
C4_CancelledDescentIsOver ==
    [][ attempt = "cancelled" =>
          /\ DescentCallback => UNCHANGED << altitude, speed, currentPosition >>
          /\ flightStatus' # Landed ]_vars

\* C5: at most one descent interval is live at any time.
C5_OneDescentLoop == Len(landingIntervals) <= 1

\* C6: cancelLanding issued while a landing is in progress sets mode back to
\* Flying, ends the landing in progress, enables the takeoff button and
\* disables the cancel button; a takeoff issued next is accepted.
C6_CancelRestoresFlying ==
    [][ /\ (Command("cancelLanding") /\ isLanding) =>
              /\ flightStatus' = Flying
              /\ ~isLanding'
              /\ ~takeoffBtnDisabled'
              /\ cancelBtnDisabled'
        /\ (lastOp = "cancelLanding" /\ Command("takeoff")) =>
              /\ lastOp' = "takeoff"
              /\ flightStatus' = TakingOff ]_vars

\* a landing in progress has just been cancelled
C6_Witness ==
    /\ lastOp = "cancelLanding"
    /\ attempt = "cancelled"
    /\ flightStatus = Flying
    /\ ~isLanding
    /\ ~takeoffBtnDisabled

\* C7: a takeoff completion that fires while a landing is in progress
\* changes neither the mode, the altitude nor the position.
C7_PendingTakeoffHarmless ==
    [][ (lastOp' = "takeoffComplete" /\ isLanding) =>
          UNCHANGED << flightStatus, altitude, currentPosition >> ]_vars

\* the mode a status text stands for: the manual text is shown over a flight
ModeOf(status) == IF status = Manual THEN Flying ELSE status

\* C8: toggleManualMode flips controlMode and leaves mode unchanged, in
\* every mode.
C8_ToggleKeepsMode ==
    [][ lastOp' = "toggleManualMode" =>
          /\ isManualMode' = ~isManualMode
          /\ ModeOf(flightStatus') = ModeOf(flightStatus) ]_vars

\* C9: a target selection is accepted only when mode = Flying, controlMode =
\* Auto and no landing is in progress; in every other state a click on the
\* overlay leaves the target unchanged.
C9_SelectionOnlyWhenFlyingAuto ==
    [][ (Command("selectLandingTarget") \/ lastOp' = "click_ignored") =>
          \/ flightStatus = Flying /\ ~isManualMode /\ ~isLanding
          \/ selectedTarget' = selectedTarget ]_vars

\* C10: startLanding starts a descent only from mode = Flying with a target
\* selected; issued in TakingOff or Landed it is a no-op.
C10_StartOnlyFromFlying ==
    [][ Command("startLanding") =>
          /\ lastOp' = "startLanding" =>
                selectedTarget.set /\ flightStatus \notin { TakingOff, Landed, Landing }
          /\ flightStatus \in { TakingOff, Landed } => NoOp ]_vars

\* the point p lies in the viewport to which the position is clamped
InViewport(p) == p.x \in MinX .. MaxX /\ p.y \in MinY .. MaxY

\* C11: a target selection whose coordinates lie outside the viewport is
\* rejected: every selection that is accepted stores a target inside the
\* viewport, so an outside click leaves the target as it was and does not
\* make startLanding available.
C11_OutOfBoundsRejected ==
    [][ lastOp' = "selectLandingTarget" => InViewport(selectedTarget') ]_vars

\* the step runs updateLandingInfo()
InfoComputed ==
    \/ lastOp' \in { "selectLandingTarget", "completeLanding",
                    "landingModeChange" }
    \/ lastOp' = "landingStep" /\ (Head(timerQueue).step + 1) % 10 = 0

\* C12: whenever the ETA is computed while speed = 0 (at landing completion,
\* for a target selected while Landed), the reported ETA is the sentinel
\* "--", never an infinite or not-a-number value.
C12_EtaSentinelAtZeroSpeed ==
    [][ (InfoComputed /\ speed' = 0) => infoEta' = EtaSentinel ]_vars

\* p is within the jitter amplitude (1 unit per coordinate) of the target t
Near(p, t) ==
    /\ p.x - t.x \in -100 .. 100
    /\ p.y - t.y \in -100 .. 100

\* C13: when a descent completes, the position equals the target it was
\* heading to up to the jitter amplitude, whatever other timers fired during
\* the descent.  A completion at the viewport centre is left out: it follows
\* a takeoff timeout firing after the last interpolation step, and the model
\* does not time that timeout against the descent.
C13_LandsOnTarget ==
    [][ (/\ lastOp' = "completeLanding"
         /\ selectedTarget.set
         /\ currentPosition # [x |-> CenterX, y |-> CenterY])
            => Near(currentPosition', selectedTarget) ]_vars

\* C14: an accepted takeoff sets mode TakingOff and its delayed completion
\* eventually fires; right after the completion fires mode = Flying,
\* altitude = 120 and the position is the viewport centre (400, 300).
C14_TakeoffCompletes ==
    /\ [][ /\ lastOp' = "takeoff" => flightStatus' = TakingOff
           /\ lastOp' = "takeoffComplete" =>
                 /\ flightStatus' = Flying
                 /\ altitude' = InitAltitude
                 /\ currentPosition' = [x |-> CenterX, y |-> CenterY] ]_vars
    /\ (lastOp = "takeoff" ~> lastOp = "takeoffComplete")

\* a takeoff issued after a completed landing has completed
C14_Witness ==
    /\ lastOp = "takeoffComplete"
    /\ attempt = "completed"
    /\ speed = 0
    /\ flightStatus = Flying
    /\ altitude = InitAltitude
    /\ currentPosition = [x |-> CenterX, y |-> CenterY]

\* C15: an accepted cancelLanding leaves the selected target set and
\* unchanged and enables the land button; a startLanding issued next is
\* accepted without a new selection.
C15_CancelKeepsTarget ==
    [][ /\ lastOp' = "cancelLanding" =>
              /\ selectedTarget'.set
              /\ selectedTarget' = selectedTarget
              /\ ~landBtnDisabled'
        /\ (lastOp = "cancelLanding" /\ Command("startLanding")) =>
              /\ lastOp' = "startLanding"
              /\ isLanding'
              /\ selectedTarget' = selectedTarget ]_vars

\* a landing has been started again right after a cancel, with the target of
\* the cancelled descent
C15_Witness ==
    /\ lastOp = "startLanding"
    /\ Len(landingIntervals) = 2
    /\ selectedTarget.set
    /\ isLanding

\* the step is a callback of the simulation interval
DriftCallback == lastOp' \in { "drift", "drift_skipped" }

\* C16: the drift tick perturbs the vehicle only while mode = Flying and
\* controlMode = Auto: in TakingOff, Landing, Landed or while Manual it
\* leaves position, altitude and speed unchanged.
C16_DriftOnlyWhenFlyingAuto ==
    [][ (DriftCallback /\ ~(flightStatus = Flying /\ ~isManualMode))
            => UNCHANGED << currentPosition, altitude, speed >> ]_vars

\* C17: after every drift tick that perturbs the vehicle the position is
\* inside the viewport: x within [10, 790] and y within [10, 590].
C17_DriftStaysInViewport ==
    [][ lastOp' = "drift" => InViewport(currentPosition') ]_vars

\* a drift tick has run on a vehicle that landed on a target in the margin:
\* the clamp has brought it back to the corner of the viewport
C17_Witness ==
    /\ lastOp = "drift"
    /\ attempt = "completed"
    /\ currentPosition = [x |-> MinX, y |-> MaxY]

\* C18: the battery level never increases and stays within [0, 100]; a
\* battery tick lowers it by 0.01, floored at 0, when the status is not
\* Landed and leaves it unchanged when Landed.
C18_BatteryOnlyDrains ==
    /\ [](battery \in 0 .. 10000)
    /\ [][ /\ battery' <= battery
           /\ lastOp' \in { "battery", "battery_floored", "battery_skipped" } =>
                 battery' = IF flightStatus = Landed
                            THEN battery
                            ELSE Max(0, battery - BatteryStep) ]_vars

\* a battery tick has run on the empty battery and the floor has acted
C18_Witness ==
    /\ lastOp = "battery_floored"
    /\ battery = 0

\* C19: the safety level is a function of the altitude alone: below 20 it is
\* "high", from 20 to below 50 "medium", from 50 on "low"; the boundaries 20
\* and 50 belong to the upper tier.
C19_SafetyThresholds ==
    [][ lastOp' = "landingModeChange" =>
          /\ altitude < 2000 => infoSafety' = "high"
          /\ (altitude >= 2000 /\ altitude < 5000) => infoSafety' = "medium"
          /\ altitude >= 5000 => infoSafety' = "low" ]_vars

\* the level has been computed at the boundary 20
C19_Witness ==
    /\ lastOp = "landingModeChange"
    /\ altitude = 2000
    /\ infoSafety = "medium"

\* C20: while controlMode = Manual no landing is initiated: startLanding
\* issued in Manual mode starts no descent, also when a target was selected
\* before the switch to Manual.
C20_NoLandingInManual ==
    [][ (Command("startLanding") /\ isManualMode) =>
          /\ lastOp' = "startLanding_ignored"
          /\ UNCHANGED << isLanding, timerQueue >> ]_vars

\* C21: a target exists only while mode is Flying, and it is cleared when a
\* landing completes and when a landing is cancelled.  Stated for the
\* descent itself as well, during which the target is the one being
\* approached: a target never exists in TakingOff or Landed, and an accepted
\* cancelLanding leaves no target.
C21_TargetOnlyWhileFlying ==
    [][ /\ selectedTarget'.set => ModeOf(flightStatus') \in { Flying, Landing }
        /\ lastOp' = "cancelLanding" => ~selectedTarget'.set ]_vars

\* C22: in every reachable state the position lies within the viewport
\* [10, 790] x [10, 590].
C22_PositionInViewport == InViewport(currentPosition)

\* C24: no descent tick, the first included, sets the altitude higher than
\* it was before that tick.
C24_DescentNeverClimbs ==
    [][ DescentCallback => altitude' <= altitude ]_vars

\* the step is a callback of a timer
TimerCallback ==
    \/ DescentCallback
    \/ DriftCallback
    \/ lastOp' \in { "battery", "battery_floored", "battery_skipped" }

\* C25: whenever the flight status is Landed, altitude = 0 and speed = 0, and
\* no timer callback changes altitude or speed while the status stays
\* Landed.
C25_LandedMeansGrounded ==
    [][ /\ flightStatus' = Landed => (altitude' = 0 /\ speed' = 0)
        /\ (TimerCallback /\ flightStatus = Landed /\ flightStatus' = Landed)
              => UNCHANGED << altitude, speed >> ]_vars

\* C26: every descent tick that reaches the position update runs with a
\* target set: no descent tick reads the coordinates of a cleared target.
C26_DescentTickHasTarget == lastOp # "landingStep_TypeError"

\* C27: the landing flag and the flight status agree in every reachable
\* state: isLanding holds exactly when the status is the automatic-landing
\* status.
C27_FlagMatchesStatus == isLanding <=> (flightStatus = Landing)

\* C28: a single drift tick changes the altitude by at most 0.1 and the speed
\* by at most 0.05 in magnitude, in every state in which it runs.
C28_DriftIsSmall ==
    [][ lastOp' = "drift" =>
          /\ altitude' - altitude \in -10 .. 10
          /\ speed' - speed \in -5 .. 5 ]_vars

\* ===================================================================== wish
\* Model of WishApp (src/wish_app/script.js).  The server is not part of the
\* sources; of it the model keeps what the README states: a like adds one to
\* a wish's count, an unlike takes it back, and the list is served ordered
\* by like count, most liked first (ties in the order of creation).

\* wishes on the server and likes of one wish at the start
MaxWishes == 3

MaxLikes == 2

\* a wish as the server holds it
WishRecords ==
    { [likes |-> l, liked_by_user |-> b] :
        l \in 0 .. MaxLikes, b \in BOOLEAN } \ { [likes |-> 0, liked_by_user |-> TRUE] }

\* the lists of wishes the server can hold, indexed by wish id
WishLists == UNION { [1 .. n -> WishRecords] : n \in 0 .. MaxWishes }

\* the ids in S by descending like count, ties by ascending id
RECURSIVE ByLikes(_, _)
ByLikes(wishes, S) ==
    IF S = {} THEN << >>
    ELSE LET first == CHOOSE i \in S : \A j \in S :
                         \/ wishes[i].likes > wishes[j].likes
                         \/ wishes[i].likes = wishes[j].likes /\ i <= j
         IN  << first >> \o ByLikes(wishes, S \ { first })

\* GET /api/wishes: the list the server sends
ServedWishes(wishes) == ByLikes(wishes, DOMAIN wishes)

\* createWishCard(wish): the card of a wish, its like button idle
createWishCard(wishes, id) ==
    [id |-> id, likes |-> wishes[id].likes, liked |-> wishes[id].liked_by_user,
     pending |-> "none"]

\* renderWishes(wishes): one card per wish, in the order received
renderWishes(wishes) ==
    LET order == ServedWishes(wishes) IN
    IF Len(order) = 0
    THEN [view |-> "empty", cards |-> << >>]
    ELSE [view |-> "cards",
          cards |-> [i \in 1 .. Len(order) |-> createWishCard(wishes, order[i])]]

\* the container while loadWishes() waits for its response
LoadingView == [view |-> "loading", cards |-> << >>]

\* the landing page as constructed, not operated
LandingIdle ==
    /\ selectedTarget = NoTarget
    /\ currentPosition = [x |-> CenterX, y |-> CenterY]
    /\ altitude = InitAltitude
    /\ speed = InitSpeed
    /\ battery = InitBattery
    /\ flightStatus = Flying
    /\ isLanding = FALSE
    /\ isManualMode = FALSE
    /\ landBtnDisabled = TRUE
    /\ takeoffBtnDisabled = FALSE
    /\ cancelBtnDisabled = TRUE
    /\ infoEta = EtaMarkup
    /\ infoSafety = "markup"
    /\ timerQueue = << Simulation >>
    /\ takeoffTimeouts = 0
    /\ events = 0
    /\ attempt = "none"

serverWishes == wishApp.serverWishes

wishesContainer == wishApp.wishesContainer

\* the cards on display
cards == wishesContainer.cards

\* new WishApp(): init() has called loadWishes(), whose fetch is in flight
WishInit ==
    /\ LandingIdle
    /\ CountdownClosed
    /\ lastOp = "init"
    /\ wishApp \in { [serverWishes |-> w, wishesContainer |-> LoadingView] :
                       w \in WishLists }

\* loadWishes(): the response arrives, ok or not
LoadWishes ==
    /\ wishesContainer.view = "loading"
    /\ \/ /\ wishApp' = [wishApp EXCEPT
                            !.wishesContainer = renderWishes(serverWishes)]
          /\ lastOp' = "loadWishes"
       \/ /\ wishApp' = [wishApp EXCEPT
                            !.wishesContainer = [view |-> "error", cards |-> << >>]]
          /\ lastOp' = "loadWishes_failed"
    /\ UNCHANGED << landingSystem, countdown >>

\* the server's handling of POST or DELETE /api/wishes/{id}/like
ServerLike(wishes, id, isLiked) ==
    [wishes EXCEPT ![id] =
        IF isLiked
        THEN [likes |-> Max(0, wishes[id].likes - 1), liked_by_user |-> FALSE]
        ELSE [likes |-> wishes[id].likes + 1, liked_by_user |-> TRUE]]

\* toggleLike(wishId, buttonElement) up to its fetch, on the card at place i:
\* the request goes out and the server answers it, ok or with an error
ToggleLike(i) ==
    /\ wishesContainer.view = "cards"
    /\ i \in 1 .. Len(cards)
    /\ IF cards[i].pending # "none"
       THEN /\ lastOp' = "toggleLike_ignored"
            /\ UNCHANGED wishApp
       ELSE /\ lastOp' = "toggleLike"
            /\ \/ wishApp' =
                    [wishApp EXCEPT
                       !.serverWishes =
                           ServerLike(serverWishes, cards[i].id, cards[i].liked),
                       !.wishesContainer.cards[i].pending = "ok"]
               \/ wishApp' =
                    [wishApp EXCEPT !.wishesContainer.cards[i].pending = "error"]
    /\ UNCHANGED << landingSystem, countdown >>

\* the button of a card after an ok response: lines 197-209
LikedButton(card) ==
    IF card.liked
    THEN [card EXCEPT !.liked = FALSE, !.likes = card.likes - 1,
                      !.pending = "none"]
    ELSE [card EXCEPT !.liked = TRUE, !.likes = card.likes + 1,
                      !.pending = "none"]

\* toggleLike() from the response on, for the card at place i
LikeResponse(i) ==
    /\ wishesContainer.view = "cards"
    /\ i \in 1 .. Len(cards)
    /\ cards[i].pending # "none"
    /\ IF cards[i].pending = "ok"
       THEN /\ wishApp' = [wishApp EXCEPT
                             !.wishesContainer.cards[i] = LikedButton(cards[i])]
            /\ lastOp' = "likeResponse"
       ELSE /\ wishApp' = [wishApp EXCEPT
                             !.wishesContainer.cards[i].pending = "none"]
            /\ lastOp' = "likeResponse_failed"
    /\ UNCHANGED << landingSystem, countdown >>

\* submitWish(): empty content is refused; otherwise the server stores the
\* wish and loadWishes() is called, or the server answers with an error
SubmitWish ==
    /\ wishesContainer.view # "closed"
    /\ \/ /\ lastOp' = "submitWish_rejected"
          /\ UNCHANGED wishApp
       \/ /\ Len(serverWishes) < MaxWishes
          /\ wishApp' =
               [serverWishes |->
                    Append(serverWishes, [likes |-> 0, liked_by_user |-> FALSE]),
                wishesContainer |-> LoadingView]
          /\ lastOp' = "submitWish"
       \/ /\ lastOp' = "submitWish_failed"
          /\ UNCHANGED wishApp
    /\ UNCHANGED << landingSystem, countdown >>

WishNext ==
    \/ LoadWishes
    \/ \E i \in 1 .. MaxWishes : ToggleLike(i)
    \/ \E i \in 1 .. MaxWishes : LikeResponse(i)
    \/ SubmitWish

WishSpec == WishInit /\ [][WishNext]_vars

\* C23: the wish list on display is ordered by like count at all times, also
\* after a like or unlike has been applied to a card: no wish is displayed
\* above a wish that has more likes.
C23_DisplayOrderedByLikes ==
    \A i, j \in 1 .. Len(cards) : i < j => cards[i].likes >= cards[j].likes

\* ================================================================ countdown
\* Model of the countdown script (src/air_autopilot_platform/docs/
\* architecture.md, lines 156-312).  Time is counted in seconds; the values
\* of the date and time fields are chosen when the set button is clicked.

\* seconds the clock runs
MaxNow == 3

InvalidDate == [kind |-> "invalid", t |-> 0]

Date(t) == [kind |-> "date", t |-> t]

\* values of the date and time fields at a click on the set button: one of
\* them empty, a text new Date() cannot parse, or a date and time
EmptyFields == [kind |-> "empty", t |-> 0]

Unparseable == [kind |-> "text", t |-> 0]

Fields(t) == [kind |-> "fields", t |-> t]

FieldValues ==
    { EmptyFields, Unparseable } \cup { Fields(t) : t \in 0 .. MaxNow + 1 }

\* new Date(`${dateValue}T${timeValue}`)
ParseDate(fields) ==
    IF fields.kind = "fields" THEN Date(fields.t) ELSE InvalidDate

targetDate == countdown.targetDate

countdownInterval == countdown.countdownInterval

now == countdown.now

\* the four spans for the target date at time clock: lines 282-303.
\* Invalid Date - now is NaN, NaN <= 0 is false and the spans show NaN.
Remaining(date, clock) ==
    IF date.kind = "invalid" THEN [kind |-> "NaN", left |-> 0]
    ELSE IF date.t - clock <= 0 THEN Zeros
    ELSE [kind |-> "time", left |-> date.t - clock]

\* the page c after updateCountdown() has run: it writes the spans and, at
\* or past the target, clears the interval (the variable keeps the handle)
\* and writes the title
updateCountdown(c) ==
    IF c.targetDate.kind = "null" THEN c
    ELSE IF c.targetDate.kind = "date" /\ c.targetDate.t - c.now <= 0
    THEN [c EXCEPT !.display = Zeros, !.countdownInterval = "cleared",
                   !.eventTitle = "timeUp"]
    ELSE [c EXCEPT !.display = Remaining(c.targetDate, c.now)]

\* the page c after startCountdown()
startCountdown(c) ==
    LET updated == updateCountdown(c) IN
    [updated EXCEPT !.countdownInterval = "live"]

\* the page as loaded for the first time: nothing saved, no countdown
CountdownInit ==
    /\ LandingIdle
    /\ WishAppClosed
    /\ CountdownClosed
    /\ lastOp = "init"

\* click on set-countdown with the given field values
SetCountdown(fields) ==
    /\ IF fields.kind = "empty"
       THEN /\ lastOp' = "setCountdown_empty"
            /\ UNCHANGED countdown
       ELSE LET date == ParseDate(fields) IN
            IF date.kind = "invalid" \/ date.t <= now
            THEN /\ countdown' = [countdown EXCEPT !.targetDate = date]
                 /\ lastOp' = "setCountdown_rejected"
            \* the title, startCountdown() and saveSettings()
            ELSE /\ countdown' =
                      startCountdown(
                          [countdown EXCEPT
                             !.targetDate = date,
                             !.eventTitle = "until",
                             !.localStorage = [kind |-> "saved", t |-> fields.t]])
                 /\ lastOp' = "setCountdown"
    /\ UNCHANGED << landingSystem, wishApp >>

\* click on reset-countdown
ResetCountdown ==
    /\ countdown' = [countdown EXCEPT !.countdownInterval = "null",
                                      !.display = Zeros,
                                      !.eventTitle = ""]
    /\ lastOp' = "resetCountdown"
    /\ UNCHANGED << landingSystem, wishApp >>

\* a second passes and the interval's callback runs
CountdownTick ==
    /\ countdownInterval = "live"
    /\ now < MaxNow
    /\ countdown' = updateCountdown([countdown EXCEPT !.now = now + 1])
    /\ lastOp' = "updateCountdown"
    /\ UNCHANGED << landingSystem, wishApp >>

\* a second passes with no interval live
TimePasses ==
    /\ countdownInterval # "live"
    /\ now < MaxNow
    /\ countdown' = [countdown EXCEPT !.now = now + 1]
    /\ lastOp' = "timePasses"
    /\ UNCHANGED << landingSystem, wishApp >>

\* the page is loaded again: the script's variables start over and
\* loadSavedSettings() runs on what localStorage holds
PageLoad ==
    /\ lastOp' = "pageLoad"
    /\ LET saved == countdown.localStorage
           fresh == [CountdownLoaded EXCEPT !.now = now,
                                            !.localStorage = saved]
       IN  countdown' =
             IF saved.kind = "none" THEN fresh
             ELSE IF saved.t > now
             THEN startCountdown([fresh EXCEPT !.targetDate = Date(saved.t),
                                               !.eventTitle = "until"])
             ELSE [fresh EXCEPT !.targetDate = Date(saved.t),
                                !.localStorage = NoSettings]
    /\ UNCHANGED << landingSystem, wishApp >>

CountdownNext ==
    \/ \E fields \in FieldValues : SetCountdown(fields)
    \/ ResetCountdown
    \/ CountdownTick
    \/ TimePasses
    \/ PageLoad

CountdownSpec == CountdownInit /\ [][CountdownNext]_vars

\* C29: when the set action rejects its input (a date or time that cannot be
\* parsed, or a target time that is not in the future), a countdown already
\* running is unaffected: its target time is unchanged, its interval stays
\* live and the spans keep what they showed.
C29_RejectedSetKeepsCountdown ==
    [][ (lastOp' = "setCountdown_rejected" /\ countdownInterval = "live")
            => countdown' = countdown ]_vars

====
